---- MODULE Spec2Model ----
(***************************************************************************)
(* Model of the meeting RAG service: the ingestion pipeline (websocket     *)
(* producer, the two asyncio queues, the two embedding workers), the       *)
(* chunker, the Qdrant filter builder, the two query endpoints, the model  *)
(* holder, the application lifespan and the document upload.               *)
(*                                                                         *)
(* Seven state machines share the module; each specification runs one of     *)
(* them and leaves the variables of the others at their idle values:       *)
(*   Spec / FairSpec : helpers/embedding.py + routers/embedding.py         *)
(*   QuerySpec       : routers/search.py + helpers/rag.py                  *)
(*   ChunkSpec       : helpers/document.py                                 *)
(*   FilterSpec      : helpers/rag.py build_qdrant_filter                  *)
(*   ModelSpec       : config/models.py                                    *)
(*   LifeSpec        : main.py lifespan (with set_model of config/models)  *)
(*   UploadSpec      : routers/embedding.py upload_doc                     *)
(***************************************************************************)
EXTENDS Integers, Sequences, FiniteSets, TLC

VARIABLES
    \* ---- ingestion (helpers/embedding.py, routers/embedding.py)
    queue,          \* queue[w]: items of embedding_queue / embedding_queue_chat
    unfinished,     \* unfinished[w]: asyncio.Queue._unfinished_tasks
    pc,             \* pc[w]: position of worker w in its loop
    chunk,          \* chunk[w]: <<item>> while worker w holds an item, else <<>>
    store,          \* store[c]: points upserted into collection c, in order
    acks,           \* "queued" acknowledgements sent on the websocket
    nextId,         \* number of websocket messages received so far
    enqueued,       \* history: enqueued[w] = messages put on queue w, in order
    dequeued,       \* history: dequeued[w] = messages worker w got, in order
    upsert_log,     \* history: every qdrant.upsert call of a worker
    finished,       \* history: finished[w] = how each item of w ended, in order
    errors_logged,  \* history: logger.error calls of the workers
    \* ---- query endpoints (routers/search.py)
    q_req,          \* the SearchRequest and the store's answer per collection
    q_pc,           \* "idle" | "ready" | "done"
    q_resp,         \* what the endpoint did and returned
    \* ---- chunker (helpers/document.py)
    c_text,         \* the input lines
    c_pc,           \* "idle" | "loop" | "flush" | "done"
    c_i,            \* index of the next line of the for loop
    current_chunk,
    current_word_count,
    chunks,
    current_overlap, \* history: how many leading lines of current_chunk are overlap
    chunk_overlaps,  \* history: the same for every chunk of chunks
    \* ---- filter builder (helpers/rag.py)
    f_in,           \* <<filters, collection_type>>
    f_pc,           \* "idle" | "ready" | "done"
    f_out,          \* the returned Filter, or None
    \* ---- model holder (config/models.py)
    _model,         \* the module global: <<>> (None) or <<instance>>
    s_pc,           \* s_pc[c]: position of caller c in set_model
    loads,          \* history: the instances constructed and assigned, in order
    returned,       \* history: what get_model has returned (<<>>: it raised)
    \* ---- lifespan (main.py)
    l_pc,           \* position of lifespan
    l_i,            \* index of the collection the startup is at
    task,           \* the local variable task: <<>> or <<worker>>
    tasks,          \* tasks[w]: state of the asyncio task of worker w
    collections,    \* collections[c]: <<>> or <<collection c of the store>>
    l_created,      \* history: recreate_collection calls of this process
    l_run,          \* number of the process run
    \* ---- document upload (routers/embedding.py upload_doc)
    u_file,         \* the uploaded file: whether its name ends with ".docx"
    u_chunks,       \* what chunk_text returns for the text of the file
    u_pc,           \* "idle" | "ready" | "batch" | "done"
    u_tmp,          \* the temporary file: "none" | "exists" | "deleted"
    u_points,       \* points: the PointStructs built from the chunks
    u_i,            \* i of "for i in range(0, len(points), BATCH_SIZE)"
    u_upserts,      \* history: every qdrant.upsert call of the request
    u_docs,         \* points of the documents collection
    u_resp          \* <<>> or <<the response of the request>>

ingestVars == <<queue, unfinished, pc, chunk, store, acks, nextId, enqueued,
                dequeued, upsert_log, finished, errors_logged>>
queryVars == <<q_req, q_pc, q_resp>>
chunkVars == <<c_text, c_pc, c_i, current_chunk, current_word_count, chunks,
               current_overlap, chunk_overlaps>>
filterVars == <<f_in, f_pc, f_out>>
modelVars == <<_model, s_pc, loads, returned>>
lifeVars == <<l_pc, l_i, task, tasks, collections, l_created, l_run>>
uploadVars == <<u_file, u_chunks, u_pc, u_tmp, u_points, u_i, u_upserts, u_docs, u_resp>>
vars == <<ingestVars, queryVars, chunkVars, filterVars, modelVars, lifeVars, uploadVars>>

None == "None"

(***************************************************************************)
(* Generic helpers                                                         *)
(***************************************************************************)
Range(s) == {s[i] : i \in 1..Len(s)}

Min(a, b) == IF a <= b THEN a ELSE b

Take(s, n) == SubSeq(s, 1, Min(n, Len(s)))

RECURSIVE SeqsUpTo(_, _)
SeqsUpTo(S, n) ==
    IF n = 0 THEN {<<>>}
    ELSE LET shorter == SeqsUpTo(S, n - 1)
         IN  shorter \cup {Append(s, x) : s \in {t \in shorter : Len(t) = n - 1}, x \in S}

RECURSIVE Flatten(_)
Flatten(ss) == IF ss = <<>> THEN <<>> ELSE Head(ss) \o Flatten(Tail(ss))

(***************************************************************************)
(* Ingestion pipeline                                                      *)
(***************************************************************************)
MaxMsgs == 3

Workers == {"transcript", "chat"}

QDRANT_MEETING_TRANSCRIPTS_COLLECTION_NAME == "meeting_transcripts"
QDRANT_CHAT_MESSAGES_COLLECTION_NAME == "chat_messages"
QDRANT_DOCUMENT_COLLECTION_NAME == "documents"

Collections == {QDRANT_DOCUMENT_COLLECTION_NAME,
                QDRANT_MEETING_TRANSCRIPTS_COLLECTION_NAME,
                QDRANT_CHAT_MESSAGES_COLLECTION_NAME}

\* The "type" field of a websocket message; None when the field is absent.
MsgTypes == {None, "transcript", "chat"}

\* A received JSON object, by the fields the routing and the histories read:
\* block_id identifies it, type is its "type" field; meeting_id and timestamp
\* are None until set.
Message(id, type) ==
    [block_id |-> id, type |-> type, meeting_id |-> None, timestamp |-> None]

\* The meeting_id path parameter of the websocket connection, and what a client
\* may send in the "meeting_id" field of a message (None: no such field).
ConnectionMeetingId == "m1"

SentMeetingIds == {None, "m1", "m2"}

\* What a client may send in "timestamp": nothing, or a time; the handler puts
\* the current time in place of nothing. "set" stands for either time.
SentTimestamps == {None, "set"}

\* data["meeting_id"] = meeting_id
SetMeetingIdIfAbsent(data, meeting_id) ==
    IF data.meeting_id = None THEN [data EXCEPT !.meeting_id = meeting_id] ELSE data

SetMeetingId(data, meeting_id) == [data EXCEPT !.meeting_id = meeting_id]

\* if data.get("timestamp") is None: data["timestamp"] = datetime.utcnow().isoformat()
DefaultTimestamp(data) ==
    IF data.timestamp = None THEN [data EXCEPT !.timestamp = "set"] ELSE data

\* data.get("type", "transcript") == "chat" selects embedding_queue_chat,
\* anything else embedding_queue.
TypeOf(data) == IF data.type = None THEN "transcript" ELSE data.type

Route(data) == IF TypeOf(data) = "chat" THEN "chat" ELSE "transcript"

\* Collection each worker writes to.
WorkerCollectionShared(w) == QDRANT_MEETING_TRANSCRIPTS_COLLECTION_NAME

WorkerCollection(w) ==
    IF w = "transcript" THEN QDRANT_MEETING_TRANSCRIPTS_COLLECTION_NAME
    ELSE QDRANT_CHAT_MESSAGES_COLLECTION_NAME

\* asyncio.Queue(): no maxsize is given, so the queue is never full and put
\* never waits.
QueueFull(q) == FALSE

\* asyncio.Queue.put on an unbounded queue: appends, never blocks.
QueuePut(q, item) == Append(q, item)

\* str(uuid4()) of the n-th point built in the process: identifiers drawn by
\* uuid4 are taken to be pairwise different.
uuid4(n) == n

\* asyncio.Queue.get: removes and returns the oldest item.
QueueGetNewest(q) == [item |-> q[Len(q)], rest |-> SubSeq(q, 1, Len(q) - 1)]

QueueGet(q) == [item |-> Head(q), rest |-> Tail(q)]

\* What can raise inside the try block: "encode" is an exception of the
\* embedding computation, chunk["text"] (KeyError when the item has no "text"
\* key) or _model.encode(...); "upsert" is an exception of qdrant.upsert.
\* get_model() returns: the model is loaded before the application serves
\* (lifespan calls set_model first).
Faults == {"none", "encode", "upsert"}

\* What the try block does with an item under a fault: upsert is reached
\* unless the embedding computation raised, and the point is stored
\* unless something raised.
TryBlock(item, fault) ==
    [raised |-> fault,
     upsert_called |-> fault \in {"none", "upsert"},
     stored |-> fault = "none"]

\* except Exception as e: logger.error(...). Every exception of the try block
\* is caught and logged, none leaves the loop body.
ExceptClauseReraises(raised) == [logged |-> raised # "none", propagates |-> raised # "none"]

ExceptClause(raised) == [logged |-> raised # "none", propagates |-> FALSE]

\* The queue after a failed item: nothing in the except or finally clause puts
\* the item back.
QueueAfterFailureRequeues(q, item) == Append(q, item)

QueueAfterFailure(q, item) == q

\* finally: queue.task_done(). The clause runs however the try block ended.
\* n is the queue's count of unfinished tasks.
task_done_unless_raised(n, raised) == IF raised = "none" THEN n - 1 ELSE n

task_done(n, raised) == n - 1

\* while True: the loop has no exit condition.
LoopUntilQueueEmpty(q) == q # <<>>

LoopCondition(q) == TRUE

IngestInit ==
    /\ queue = [w \in Workers |-> <<>>]
    /\ unfinished = [w \in Workers |-> 0]
    /\ pc = [w \in Workers |-> "get"]
    /\ chunk = [w \in Workers |-> <<>>]
    /\ store = [c \in Collections |-> <<>>]
    /\ acks = <<>>
    /\ nextId = 0
    /\ enqueued = [w \in Workers |-> <<>>]
    /\ dequeued = [w \in Workers |-> <<>>]
    /\ upsert_log = <<>>
    /\ finished = [w \in Workers |-> <<>>]
    /\ errors_logged = <<>>

\* meeting_ws, one iteration of its receive loop for a well-formed message.
meeting_ws(type) ==
    /\ nextId < MaxMsgs
    /\ \E sent_meeting_id \in SentMeetingIds, sent_timestamp \in SentTimestamps :
       LET message == [Message(nextId + 1, type) EXCEPT !.meeting_id = sent_meeting_id,
                                                        !.timestamp = sent_timestamp]
           data == DefaultTimestamp(SetMeetingId(message, ConnectionMeetingId))
           w == Route(data)
       IN  /\ ~QueueFull(queue[w])
           /\ queue' = [queue EXCEPT ![w] = QueuePut(@, data)]
           /\ unfinished' = [unfinished EXCEPT ![w] = @ + 1]
           /\ enqueued' = [enqueued EXCEPT ![w] = Append(@, data)]
           /\ acks' = Append(acks, [type |-> TypeOf(data), status |-> "queued",
                                    block_id |-> data.block_id,
                                    meeting_id |-> ConnectionMeetingId])
    /\ nextId' = nextId + 1
    /\ UNCHANGED <<pc, chunk, store, dequeued, upsert_log, finished, errors_logged>>

\* chunk = await queue.get(): enabled only when an item is available.
WorkerGet(w) ==
    /\ pc[w] = "get"
    /\ queue[w] # <<>>
    /\ LET got == QueueGet(queue[w])
       IN  /\ chunk' = [chunk EXCEPT ![w] = <<got.item>>]
           /\ queue' = [queue EXCEPT ![w] = got.rest]
           /\ dequeued' = [dequeued EXCEPT ![w] = Append(@, got.item)]
    /\ pc' = [pc EXCEPT ![w] = "body"]
    /\ UNCHANGED <<unfinished, store, acks, nextId, enqueued, upsert_log,
                   finished, errors_logged>>
    /\ UNCHANGED <<queryVars, chunkVars, filterVars, modelVars, lifeVars, uploadVars>>

\* The try / except / finally of one loop iteration, then back to the loop head.
WorkerBody(w) ==
    /\ pc[w] = "body"
    /\ \E fault \in Faults :
         LET item == chunk[w][1]
             t == TryBlock(item, fault)
             e == ExceptClause(t.raised)
             c == WorkerCollection(w)
             q == IF t.stored THEN queue[w] ELSE QueueAfterFailure(queue[w], item)
             point == [id |-> uuid4(Len(upsert_log) + 1), payload |-> item]
         IN  /\ upsert_log' = IF t.upsert_called
                              THEN Append(upsert_log, [collection |-> c,
                                                       block_id |-> item.block_id,
                                                       points |-> <<point>>,
                                                       ok |-> t.stored])
                              ELSE upsert_log
             /\ store' = IF t.stored
                         THEN [store EXCEPT ![c] = Append(@, point)]
                         ELSE store
             /\ errors_logged' = IF e.logged
                                 THEN Append(errors_logged, [worker |-> w,
                                                             block_id |-> item.block_id])
                                 ELSE errors_logged
             /\ finished' = [finished EXCEPT ![w] =
                                Append(@, [block_id |-> item.block_id,
                                           raised |-> t.raised,
                                           result |-> IF t.stored THEN "stored"
                                                      ELSE "dropped"])]
             /\ queue' = [queue EXCEPT ![w] = q]
             /\ unfinished' = [unfinished EXCEPT ![w] = task_done(@, t.raised)]
             /\ pc' = [pc EXCEPT ![w] = IF e.propagates THEN "crashed"
                                        ELSE IF LoopCondition(q) THEN "get"
                                        ELSE "exited"]
    /\ chunk' = [chunk EXCEPT ![w] = <<>>]
    /\ UNCHANGED <<acks, nextId, enqueued, dequeued>>
    /\ UNCHANGED <<queryVars, chunkVars, filterVars, modelVars, lifeVars, uploadVars>>

embedding_worker == WorkerGet("transcript") \/ WorkerBody("transcript")

embedding_chat_worker == WorkerGet("chat") \/ WorkerBody("chat")

Receive ==
    /\ \E type \in MsgTypes : meeting_ws(type)
    /\ UNCHANGED <<queryVars, chunkVars, filterVars, modelVars, lifeVars, uploadVars>>

(***************************************************************************)
(* Query endpoints: routers/search.py, helpers/rag.py                      *)
(***************************************************************************)
MaxTopK == 2

\* Similarity scores, in tenths.
ScoreValues == {5, 8, 9}

\* Order in which both endpoints concatenate the per-collection results.
SearchOrder == <<QDRANT_DOCUMENT_COLLECTION_NAME,
                 QDRANT_MEETING_TRANSCRIPTS_COLLECTION_NAME,
                 QDRANT_CHAT_MESSAGES_COLLECTION_NAME>>

NO_RESULTS_MSG == "I couldn't find any relevant information"

\* What qdrant.search returns for one collection: at most limit scores, best
\* first.
Ranked(s) == \A i \in 1..(Len(s) - 1) : s[i] >= s[i + 1]

HitLists(limit) == {s \in SeqsUpTo(ScoreValues, limit) : Ranked(s)}

\* search_collection: one SearchResult per hit (rank is the hit's position in
\* the store's answer); any exception inside the try block gives [].
SearchCollectionPropagates(collection_name, hits, fails) ==
    [raised |-> fails,
     results |-> IF fails THEN <<>>
                 ELSE [i \in 1..Len(hits) |->
                          [collection |-> collection_name, score |-> hits[i], rank |-> i]]]

search_collection(collection_name, hits, fails) ==
    [raised |-> FALSE,
     results |-> IF fails THEN <<>>
                 ELSE [i \in 1..Len(hits) |->
                          [collection |-> collection_name, score |-> hits[i], rank |-> i]]]

\* list.sort(key=lambda x: x.score, reverse=True): a stable sort, so results
\* of equal score keep their order. Computed by insertion from the left.
InsertByScoreBeforeEqual(sorted, x) ==
    LET n == Cardinality({i \in 1..Len(sorted) : sorted[i].score > x.score})
    IN  SubSeq(sorted, 1, n) \o <<x>> \o SubSeq(sorted, n + 1, Len(sorted))

InsertByScore(sorted, x) ==
    LET n == Cardinality({i \in 1..Len(sorted) : sorted[i].score >= x.score})
    IN  SubSeq(sorted, 1, n) \o <<x>> \o SubSeq(sorted, n + 1, Len(sorted))

RECURSIVE SortByScoreDesc(_)
SortByScoreDesc(s) ==
    IF s = <<>> THEN <<>>
    ELSE InsertByScore(SortByScoreDesc(SubSeq(s, 1, Len(s) - 1)), s[Len(s)])

\* all_results[: request.top_k * 2]
TopResults(all_results, top_k) == Take(all_results, top_k * 2)

\* if top_results: ... generate_content(...) else: the fixed answer.
ShouldGenerateAlways(top_results) == TRUE

ShouldGenerate(top_results) == top_results # <<>>

\* build_rag_prompt: the results whose collection name contains "transcript",
\* then those whose collection name contains "document".
build_rag_prompt(context_results) ==
    [transcripts |-> SelectSeq(context_results,
                        LAMBDA r : r.collection = QDRANT_MEETING_TRANSCRIPTS_COLLECTION_NAME),
     documents |-> SelectSeq(context_results,
                        LAMBDA r : r.collection = QDRANT_DOCUMENT_COLLECTION_NAME)]

\* Steps 2 to 5 of both endpoints, for the collections the endpoint searches.
Retrieve(req, searched, failing, gen_ok) ==
    LET found == [i \in 1..Len(searched) |->
                     search_collection(searched[i], req.hits[searched[i]],
                                       searched[i] \in failing)]
        gather_raised == \E i \in 1..Len(searched) : found[i].raised
        results == [i \in 1..Len(searched) |-> found[i].results]
        all_results == SortByScoreDesc(Flatten(results))
        top_results == TopResults(all_results, req.top_k)
        generate == ShouldGenerate(top_results)
    IN  [searched |-> searched,
         failing |-> failing \cap Range(searched),
         results |-> results,
         gather_raised |-> gather_raised,
         all_results |-> IF gather_raised THEN <<>> ELSE all_results,
         top_results |-> IF gather_raised THEN <<>> ELSE top_results,
         generate_called |-> ~gather_raised /\ generate,
         prompts |-> IF ~gather_raised /\ generate THEN <<build_rag_prompt(top_results)>>
                     ELSE <<>>,
         raised |-> gather_raised \/ (generate /\ ~gen_ok),
         answer |-> IF gather_raised \/ (generate /\ ~gen_ok) THEN None
                    ELSE IF generate THEN "generated" ELSE NO_RESULTS_MSG]

\* Outcome of a request whose query embedding raised: nothing was searched.
EmbeddingFailed ==
    [searched |-> <<>>, failing |-> {}, results |-> <<>>, gather_raised |-> FALSE,
     all_results |-> <<>>, top_results |-> <<>>, generate_called |-> FALSE,
     prompts |-> <<>>, raised |-> TRUE, answer |-> None]

QueryInit ==
    /\ q_pc = "ready"
    /\ q_resp = None
    /\ \E top_k \in 1..MaxTopK, include_sources \in BOOLEAN :
       \E hits \in [Collections -> HitLists(top_k)] :
          q_req = [top_k |-> top_k, include_sources |-> include_sources, hits |-> hits]

\* The search_collection calls each endpoint hands to asyncio.gather, in order.
RagSearchCollections == SearchOrder

RagSearchStreamCollections == SubSeq(SearchOrder, 1, 2)

\* POST /api/rag/search
rag_search ==
    /\ q_pc = "ready"
    /\ \E embed_ok \in BOOLEAN, failing \in SUBSET Collections, gen_ok \in BOOLEAN :
         LET r == IF embed_ok THEN Retrieve(q_req, RagSearchCollections, failing, gen_ok)
                  ELSE EmbeddingFailed
         IN  q_resp' = [endpoint |-> "rag_search",
                        embed_ok |-> embed_ok,
                        run |-> r,
                        status |-> IF r.raised THEN 500 ELSE 200,
                        answer |-> r.answer,
                        sources |-> IF r.raised THEN None
                                    ELSE IF q_req.include_sources THEN r.top_results
                                    ELSE <<>>,
                        total_results |-> IF r.raised THEN None ELSE Len(r.all_results)]
    /\ q_pc' = "done"
    /\ UNCHANGED <<q_req, ingestVars, chunkVars, filterVars, modelVars, lifeVars, uploadVars>>

\* POST /api/rag/search/stream: documents and transcripts are searched; the
\* body is streamed, and an exception is streamed as an "Error: ..." line.
rag_search_stream ==
    /\ q_pc = "ready"
    /\ \E embed_ok \in BOOLEAN, gen_ok \in BOOLEAN,
          failing \in SUBSET Range(RagSearchStreamCollections) :
         LET r == IF embed_ok
                  THEN Retrieve(q_req, RagSearchStreamCollections, failing, gen_ok)
                  ELSE EmbeddingFailed
         IN  q_resp' = [endpoint |-> "rag_search_stream",
                        embed_ok |-> embed_ok,
                        run |-> r,
                        status |-> 200,
                        answer |-> IF r.raised THEN "Error: RAG search failed"
                                   ELSE r.answer,
                        sources |-> None,
                        total_results |-> None]
    /\ q_pc' = "done"
    /\ UNCHANGED <<q_req, ingestVars, chunkVars, filterVars, modelVars, lifeVars, uploadVars>>

(***************************************************************************)
(* Chunker: helpers/document.py chunk_text                                 *)
(***************************************************************************)
MaxLines == 4

\* Numbers of words a line of the input may have; a line of no words is a
\* blank line.
WordCounts == {0, 20, 37, 200, 384, 400}

max_tokens == 512
overlap_tokens == 50

\* int(max_tokens * 0.75), int(overlap_tokens * 0.75)
max_words == (max_tokens * 3) \div 4
overlap_words == (overlap_tokens * 3) \div 4

\* A line of the input: idx is its position in text.split("\n"), words is
\* len(line.split()).
Line(i, n) == [idx |-> i, words |-> n]

\* not line.strip()
IsBlank(line) == line.words = 0

\* The chunk dictionary; text is "\n".join(lines), kept as the lines.
ApproxTokens(word_count) == (word_count * 4) \div 3

MakeChunk(lines, word_count) ==
    [text |-> lines, word_count |-> word_count, approx_tokens |-> ApproxTokens(word_count)]

\* current_word_count + line_word_count > max_words and current_chunk
\* The test without "and current_chunk": an empty buffer is closed too.
MustCloseEvenEmpty(lines, word_count, line) ==
    word_count + line.words > max_words

MustClose(lines, word_count, line) ==
    word_count + line.words > max_words /\ lines # <<>>

\* for prev_line in reversed(current_chunk): add the line in front and stop
\* once overlap_count >= overlap_words. i is the line about to be visited.
RECURSIVE OverlapWalk(_, _, _, _)
OverlapWalk(lines, i, overlap_lines, overlap_count) ==
    IF i = 0 THEN [lines |-> overlap_lines, count |-> overlap_count]
    ELSE LET count == overlap_count + lines[i].words
             taken == <<lines[i]>> \o overlap_lines
         IN  IF count >= overlap_words THEN [lines |-> taken, count |-> count]
             ELSE OverlapWalk(lines, i - 1, taken, count)

RECURSIVE WordsOf(_)
WordsOf(lines) == IF lines = <<>> THEN 0 ELSE lines[1].words + WordsOf(Tail(lines))

\* The walk without its break: every line of the closed chunk is kept.
OverlapWholeChunk(lines) == [lines |-> lines, count |-> WordsOf(lines)]

\* The walk with its running count forgotten: the next chunk counts from zero.
OverlapUncounted(lines) == [lines |-> OverlapWalk(lines, Len(lines), <<>>, 0).lines, count |-> 0]

Overlap(lines) == OverlapWalk(lines, Len(lines), <<>>, 0)

\* current_chunk.append(line): the line goes in whole.
AppendLineTruncated(lines, line) ==
    Append(lines, [line EXCEPT !.words = Min(@, max_words)])

AppendLine(lines, line) == Append(lines, line)

ChunkInit ==
    /\ \E n \in 0..MaxLines : \E counts \in [1..n -> WordCounts] :
          c_text = [i \in 1..n |-> Line(i, counts[i])]
    /\ c_pc = "loop"
    /\ c_i = 1
    /\ current_chunk = <<>>
    /\ current_word_count = 0
    /\ chunks = <<>>
    /\ current_overlap = 0
    /\ chunk_overlaps = <<>>

\* One iteration of "for line in lines".
ChunkLine ==
    /\ c_pc = "loop"
    /\ c_i <= Len(c_text)
    /\ LET line == c_text[c_i]
       IN  IF IsBlank(line)
           THEN UNCHANGED <<current_chunk, current_word_count, chunks,
                            current_overlap, chunk_overlaps>>
           ELSE IF MustClose(current_chunk, current_word_count, line)
           THEN LET o == Overlap(current_chunk)
                IN  /\ chunks' = Append(chunks, MakeChunk(current_chunk, current_word_count))
                    /\ chunk_overlaps' = Append(chunk_overlaps, current_overlap)
                    /\ current_chunk' = AppendLine(o.lines, line)
                    /\ current_word_count' = o.count + line.words
                    /\ current_overlap' = Len(o.lines)
           ELSE /\ current_chunk' = AppendLine(current_chunk, line)
                /\ current_word_count' = current_word_count + line.words
                /\ UNCHANGED <<chunks, current_overlap, chunk_overlaps>>
    /\ c_i' = c_i + 1
    /\ UNCHANGED <<c_text, c_pc, ingestVars, queryVars, filterVars, modelVars, lifeVars, uploadVars>>

\* After the loop: "if current_chunk:" appends the final chunk; return chunks.
ChunkFlush ==
    /\ c_pc = "loop"
    /\ c_i > Len(c_text)
    /\ IF current_chunk # <<>>
       THEN /\ chunks' = Append(chunks, MakeChunk(current_chunk, current_word_count))
            /\ chunk_overlaps' = Append(chunk_overlaps, current_overlap)
       ELSE UNCHANGED <<chunks, chunk_overlaps>>
    /\ c_pc' = "done"
    /\ UNCHANGED <<c_text, c_i, current_chunk, current_word_count, current_overlap,
                   ingestVars, queryVars, filterVars, modelVars, lifeVars, uploadVars>>

(***************************************************************************)
(* Filter builder: helpers/rag.py build_qdrant_filter                      *)
(***************************************************************************)
\* Optional values: <<>> is None, <<v>> is the value v.
Some(v) == <<v>>
Absent == <<>>
IsNone(o) == o = <<>>

OptStrings == {Absent, Some(""), Some("m1")}
OptInts == {Absent, Some(0), Some(3)}

CollectionTypes == {"documents", "transcripts", "chat"}

SearchFilters ==
    [meeting_id : OptStrings, file_name : OptStrings,
     start_timestamp : OptStrings, end_timestamp : OptStrings,
     chunk_index_min : OptInts, chunk_index_max : OptInts,
     block_id_min : OptInts, block_id_max : OptInts]

\* Truth value of an Optional[str] in "if filters.x:": None and "" are false.
Truthy(o) == ~IsNone(o) /\ o[1] # ""

\* FieldCondition(key=..., match=MatchValue(value=...))
MatchCondition(key, value) ==
    [key |-> key, kind |-> "match", value |-> Some(value), gte |-> Absent, lte |-> Absent]

\* FieldCondition(key=..., range=Range(gte=..., lte=...))
RangeCondition(key, gte, lte) ==
    [key |-> key, kind |-> "range", value |-> Absent, gte |-> gte, lte |-> lte]

When(cond, c) == IF cond THEN <<c>> ELSE <<>>

\* if collection_type == "documents":
DocumentFiltersApplyAlways(collection_type) == TRUE

DocumentFiltersApply(collection_type) == collection_type = "documents"

\* if collection_type == "transcripts":
BlockFiltersApply(collection_type) == collection_type = "transcripts"

Conditions(filters, collection_type) ==
    When(Truthy(filters.meeting_id), MatchCondition("meeting_id", filters.meeting_id[1]))
    \o When((Truthy(filters.start_timestamp) \/ Truthy(filters.end_timestamp))
               /\ Truthy(filters.start_timestamp),
            MatchCondition("timestamp", filters.start_timestamp[1]))
    \o When(DocumentFiltersApply(collection_type) /\ Truthy(filters.file_name),
            MatchCondition("file_name", filters.file_name[1]))
    \o When(DocumentFiltersApply(collection_type)
               /\ (~IsNone(filters.chunk_index_min) \/ ~IsNone(filters.chunk_index_max)),
            RangeCondition("chunk_index", filters.chunk_index_min, filters.chunk_index_max))
    \o When(BlockFiltersApply(collection_type)
               /\ (~IsNone(filters.block_id_min) \/ ~IsNone(filters.block_id_max)),
            RangeCondition("block_id", filters.block_id_min, filters.block_id_max))

\* return Filter(must=conditions), without the test of the list.
BuildFilterOfAnyList(filters, collection_type) ==
    IF IsNone(filters) THEN Absent
    ELSE Some([must |-> Conditions(filters[1], collection_type)])

\* filters is Absent or Some(SearchFilters); the result is Absent (None) or
\* Some(Filter(must=conditions)).
build_qdrant_filter(filters, collection_type) ==
    IF IsNone(filters) THEN Absent
    ELSE LET conditions == Conditions(filters[1], collection_type)
         IN  IF conditions # <<>> THEN Some([must |-> conditions]) ELSE Absent

FilterInit ==
    /\ \E filters \in {Absent} \cup {Some(f) : f \in SearchFilters},
          collection_type \in CollectionTypes :
          f_in = Some([filters |-> filters, collection_type |-> collection_type])
    /\ f_pc = "ready"
    /\ f_out = Absent

BuildFilter ==
    /\ f_pc = "ready"
    /\ f_out' = build_qdrant_filter(f_in[1].filters, f_in[1].collection_type)
    /\ f_pc' = "done"
    /\ UNCHANGED <<f_in, ingestVars, queryVars, chunkVars, modelVars, lifeVars, uploadVars>>

(***************************************************************************)
(* Model holder: config/models.py                                          *)
(***************************************************************************)
\* Number of threads of the process that call set_model.
MaxCallers == 2

Callers == 1..MaxCallers

EMBEDDING_MODEL == "all-MiniLM-L6-v2"

\* SentenceTransformer(model_name, device=...): the n-th instance constructed
\* in the process.
SentenceTransformer(model_name, n) == [id |-> n, name |-> model_name]

get_sentence_embedding_dimension(m) == IF m.name = EMBEDDING_MODEL THEN 384 ELSE 768

ModelInit ==
    /\ _model = <<>>
    /\ s_pc = [c \in Callers |-> "call"]
    /\ loads = <<>>
    /\ returned = {}

\* set_model, lines 14 to 17: if _model is not None: return. The test and the
\* assignment further down are separate steps of the calling thread.
SetModelCheck(c) ==
    /\ s_pc[c] = "call"
    /\ s_pc' = [s_pc EXCEPT ![c] = IF _model # <<>> THEN "returned" ELSE "try"]
    /\ UNCHANGED <<_model, loads, returned>>

\* _model = SentenceTransformer(...): the construction succeeds and the global
\* is assigned, or it raises and c goes to failed_pc.
LoadOrRaise(c, failed_pc) ==
    \E ok \in BOOLEAN :
        IF ok
        THEN LET m == SentenceTransformer(EMBEDDING_MODEL, Len(loads) + 1)
             IN  /\ _model' = <<m>>
                 /\ loads' = Append(loads, m)
                 /\ s_pc' = [s_pc EXCEPT ![c] = "returned"]
        ELSE /\ s_pc' = [s_pc EXCEPT ![c] = failed_pc]
             /\ UNCHANGED <<_model, loads>>

\* The try block: load on the preferred device.
SetModelTry(c) ==
    /\ s_pc[c] = "try"
    /\ LoadOrRaise(c, "except")
    /\ UNCHANGED returned

\* The except block: retry on CPU; an exception here leaves set_model.
SetModelExcept(c) ==
    /\ s_pc[c] = "except"
    /\ LoadOrRaise(c, "raised")
    /\ UNCHANGED returned

\* The call is over; the thread may call set_model again.
SetModelLeave(c) ==
    /\ s_pc[c] \in {"returned", "raised"}
    /\ s_pc' = [s_pc EXCEPT ![c] = "call"]
    /\ UNCHANGED <<_model, loads, returned>>

set_model(c) ==
    /\ SetModelCheck(c) \/ SetModelTry(c) \/ SetModelExcept(c) \/ SetModelLeave(c)
    /\ UNCHANGED <<ingestVars, queryVars, chunkVars, filterVars, lifeVars, uploadVars>>

\* get_model: returns _model, or raises ValueError when it is None.
get_model ==
    /\ returned' = returned \cup {_model}
    /\ UNCHANGED <<_model, s_pc, loads>>
    /\ UNCHANGED <<ingestVars, queryVars, chunkVars, filterVars, lifeVars, uploadVars>>

(***************************************************************************)
(* Lifespan: main.py                                                       *)
(***************************************************************************)
\* Number of times the process is started against the same store.
MaxRuns == 2

\* Order in which lifespan sets the collections up.
SetupOrder == <<QDRANT_DOCUMENT_COLLECTION_NAME,
                QDRANT_MEETING_TRANSCRIPTS_COLLECTION_NAME,
                QDRANT_CHAT_MESSAGES_COLLECTION_NAME>>

\* The payload indexes each setup function asks the store for.
add_indexes_to_existing_document_collection ==
    {"meeting_id", "file_name", "chunk_index", "timestamp"}

create_indexes_for_transcript_collection == {"meeting_id", "block_id", "timestamp"}

create_indexes_for_chat_messages_collection == {"meeting_id", "block_id", "timestamp"}

IndexFields(name) ==
    IF name = QDRANT_DOCUMENT_COLLECTION_NAME
    THEN add_indexes_to_existing_document_collection
    ELSE IF name = QDRANT_MEETING_TRANSCRIPTS_COLLECTION_NAME
    THEN create_indexes_for_transcript_collection
    ELSE create_indexes_for_chat_messages_collection

\* A collection of the store: its vector parameters, the number of points it
\* holds and the payload fields it indexes.
Collection(size, distance, points, indexes) ==
    [size |-> size, distance |-> distance, points |-> points, indexes |-> indexes]

\* What the store may hold for a collection name when the process first
\* starts: nothing, a collection with points made with other parameters, or
\* an empty collection.
StoredCollections ==
    {<<>>, <<Collection(768, "Dot", 2, {})>>, <<Collection(384, "Cosine", 0, {})>>}

\* name not in [c.name for c in qdrant.get_collections().collections]
CollectionMissingAlways(name, cols) == TRUE

CollectionMissing(name, cols) == cols[name] = <<>>

\* qdrant.recreate_collection(collection_name, vectors_config): the collection
\* of that name is dropped if there is one, and an empty one is created.
recreate_collection(size, distance) == Collection(size, distance, 0, {})

LifeInit ==
    /\ l_pc = "start"
    /\ l_i = 1
    /\ task = <<>>
    /\ tasks = [w \in Workers |-> "none"]
    /\ collections \in [Collections -> StoredCollections]
    /\ l_created = <<>>
    /\ l_run = 1

\* task = asyncio.create_task(embedding_worker())
StartTranscriptWorker ==
    /\ l_pc = "start"
    /\ task' = <<"transcript">>
    /\ tasks' = [tasks EXCEPT !["transcript"] = "running"]
    /\ l_pc' = "chat_worker"
    /\ UNCHANGED <<l_i, collections, l_created, l_run, modelVars>>

\* task = asyncio.create_task(embedding_chat_worker())
StartChatWorker ==
    /\ l_pc = "chat_worker"
    /\ task' = <<"chat">>
    /\ tasks' = [tasks EXCEPT !["chat"] = "running"]
    /\ l_pc' = "set_model"
    /\ UNCHANGED <<l_i, collections, l_created, l_run, modelVars>>

\* set_model(EMBEDDING_MODEL), called by lifespan as caller 1.
LifeSetModel ==
    /\ l_pc = "set_model"
    /\ SetModelCheck(1) \/ SetModelTry(1) \/ SetModelExcept(1)
    /\ UNCHANGED lifeVars

\* set_model returned, or its exception leaves lifespan and the startup fails.
AfterSetModel ==
    /\ l_pc = "set_model"
    /\ s_pc[1] \in {"returned", "raised"}
    /\ l_pc' = IF s_pc[1] = "returned" THEN "ensure" ELSE "failed"
    /\ s_pc' = [s_pc EXCEPT ![1] = "call"]
    /\ UNCHANGED <<l_i, task, tasks, collections, l_created, l_run, _model, loads,
                   returned>>

\* One "if NAME not in [...]" block of lifespan: the collection is created,
\* with the model's dimension and cosine distance, and its indexes are asked
\* for (each create_payload_index may raise, which is caught). An exception of
\* get_collections, get_model or recreate_collection leaves lifespan.
EnsureCollection ==
    /\ l_pc = "ensure"
    /\ LET name == SetupOrder[l_i]
           missing == CollectionMissing(name, collections)
       IN  \E qdrant_ok \in BOOLEAN :
             IF ~qdrant_ok \/ (missing /\ _model = <<>>)
             THEN /\ l_pc' = "failed"
                  /\ returned' = IF qdrant_ok THEN returned \cup {_model} ELSE returned
                  /\ UNCHANGED <<l_i, collections, l_created>>
             ELSE /\ IF missing
                     THEN /\ \E indexed \in SUBSET IndexFields(name) :
                               collections' = [collections EXCEPT ![name] =
                                  <<[recreate_collection(
                                        get_sentence_embedding_dimension(_model[1]),
                                        "Cosine")
                                     EXCEPT !.indexes = indexed]>>]
                          /\ l_created' = Append(l_created, name)
                          /\ returned' = returned \cup {_model}
                     ELSE UNCHANGED <<collections, l_created, returned>>
                  /\ IF l_i < Len(SetupOrder)
                     THEN l_i' = l_i + 1 /\ l_pc' = "ensure"
                     ELSE l_i' = l_i /\ l_pc' = "serving"
    /\ UNCHANGED <<task, tasks, l_run, _model, s_pc, loads>>

\* Shutdown: task.cancel()
CancelTask ==
    /\ l_pc = "serving"
    /\ tasks' = [tasks EXCEPT ![task[1]] = "cancelling"]
    /\ l_pc' = "await"
    /\ UNCHANGED <<l_i, task, collections, l_created, l_run, modelVars>>

\* A worker whose task was cancelled gets CancelledError at its
\* "await queue.get()"; "except Exception" does not catch it and the loop ends.
WorkerCancelled(w) ==
    /\ tasks[w] = "cancelling"
    /\ tasks' = [tasks EXCEPT ![w] = "cancelled"]
    /\ UNCHANGED <<l_pc, l_i, task, collections, l_created, l_run, modelVars>>

\* try: await task / except asyncio.CancelledError
AwaitTask ==
    /\ l_pc = "await"
    /\ tasks[task[1]] = "cancelled"
    /\ l_pc' = "stopped"
    /\ UNCHANGED <<l_i, task, tasks, collections, l_created, l_run, modelVars>>

\* The process is started again: its memory is new, the store is the same.
Restart ==
    /\ l_pc \in {"stopped", "failed"}
    /\ l_run < MaxRuns
    /\ l_run' = l_run + 1
    /\ l_pc' = "start"
    /\ l_i' = 1
    /\ task' = <<>>
    /\ tasks' = [w \in Workers |-> "none"]
    /\ l_created' = <<>>
    /\ _model' = <<>>
    /\ s_pc' = [c \in Callers |-> "call"]
    /\ loads' = <<>>
    /\ returned' = {}
    /\ UNCHANGED collections

lifespan ==
    /\ \/ StartTranscriptWorker \/ StartChatWorker \/ LifeSetModel \/ AfterSetModel
       \/ EnsureCollection \/ CancelTask \/ AwaitTask \/ Restart
    /\ UNCHANGED <<ingestVars, queryVars, chunkVars, filterVars, uploadVars>>

WorkerTask ==
    /\ \E w \in Workers : WorkerCancelled(w)
    /\ UNCHANGED <<ingestVars, queryVars, chunkVars, filterVars, uploadVars>>

(***************************************************************************)
(* Document upload: routers/embedding.py upload_doc                        *)
(***************************************************************************)
\* Largest number of chunks of an uploaded document.
MaxChunks == 101

BATCH_SIZE == 50

\* s[i : j] of a Python list: positions i .. j - 1 counted from zero, cut off
\* at the end of the list.
Slice(s, i, j) == SubSeq(s, i + 1, Min(j, Len(s)))

\* batch = points[i : i + BATCH_SIZE]
BatchOverlapping(pts, i) == Slice(pts, i, i + BATCH_SIZE + 1)

Batch(pts, i) == Slice(pts, i, i + BATCH_SIZE)

\* PointStruct(id=str(uuid4()), vector=embeddings[i], payload={...}) for the
\* chunk at position i counted from zero; meeting_id, file_name and timestamp
\* are the same in every point of a request.
PointStruct(chunks_, i) ==
    [id |-> uuid4(i + 1),
     payload |-> [chunk_index |-> i + 1, text |-> chunks_[i + 1].text]]

\* points = [PointStruct(...) for i in range(len(chunks))]
BuildPoints(chunks_) == [k \in 1..Len(chunks_) |-> PointStruct(chunks_, k - 1)]

\* qdrant.upsert: a point replaces the stored point of the same id.
Upsert(stored, batch) ==
    SelectSeq(stored, LAMBDA p : \A j \in 1..Len(batch) : batch[j].id # p.id) \o batch

Response(status, chunks_stored) == [status |-> status, chunks_stored |-> chunks_stored]

\* finally: os.unlink(tmp_path); a failure to delete is only logged.
Finally(unlink_ok) == u_tmp' = IF unlink_ok THEN "deleted" ELSE "exists"

UploadInit ==
    /\ \E docx \in BOOLEAN, n \in 0..MaxChunks :
          /\ u_file = <<[docx |-> docx]>>
          /\ u_chunks = [k \in 1..n |-> [text |-> k]]
    /\ u_pc = "ready"
    /\ u_tmp = "none"
    /\ u_points = <<>>
    /\ u_i = 0
    /\ u_upserts = <<>>
    /\ u_docs = <<>>
    /\ u_resp = <<>>

\* upload_doc up to the batch loop: the file name check, the temporary file,
\* chunk_text, the embeddings and the points.
UploadPrepare ==
    /\ u_pc = "ready"
    /\ \E encode_ok, unlink_ok \in BOOLEAN :
          IF ~u_file[1].docx
          THEN /\ u_resp' = <<Response(400, 0)>>
               /\ u_pc' = "done"
               /\ UNCHANGED <<u_tmp, u_points>>
          ELSE IF u_chunks = <<>>
          THEN /\ u_resp' = <<Response(400, 0)>>
               /\ u_pc' = "done"
               /\ Finally(unlink_ok)
               /\ UNCHANGED u_points
          ELSE IF ~encode_ok
          THEN /\ u_resp' = <<Response(500, 0)>>
               /\ u_pc' = "done"
               /\ Finally(unlink_ok)
               /\ UNCHANGED u_points
          ELSE /\ u_points' = BuildPoints(u_chunks)
               /\ u_tmp' = "exists"
               /\ u_pc' = "batch"
               /\ UNCHANGED u_resp
    /\ UNCHANGED <<u_file, u_chunks, u_i, u_upserts, u_docs>>

\* One iteration of the batch loop: await run_in_executor(qdrant.upsert, ...).
\* An exception of the upsert leaves the handler through the finally clause.
UploadBatch ==
    /\ u_pc = "batch"
    /\ u_i < Len(u_points)
    /\ \E upsert_ok, unlink_ok \in BOOLEAN :
         LET batch == Batch(u_points, u_i)
         IN  /\ u_upserts' = Append(u_upserts, [collection |-> QDRANT_DOCUMENT_COLLECTION_NAME,
                                                points |-> batch,
                                                ok |-> upsert_ok])
             /\ IF upsert_ok
                THEN /\ u_docs' = Upsert(u_docs, batch)
                     /\ u_i' = u_i + BATCH_SIZE
                     /\ UNCHANGED <<u_pc, u_tmp, u_resp>>
                ELSE /\ u_resp' = <<Response(500, 0)>>
                     /\ u_pc' = "done"
                     /\ Finally(unlink_ok)
                     /\ UNCHANGED <<u_docs, u_i>>
    /\ UNCHANGED <<u_file, u_chunks, u_points>>

\* The loop is over: return {"status": "success", "chunks_stored": len(points)}.
UploadReturn ==
    /\ u_pc = "batch"
    /\ u_i >= Len(u_points)
    /\ \E unlink_ok \in BOOLEAN : Finally(unlink_ok)
    /\ u_resp' = <<Response(200, Len(u_points))>>
    /\ u_pc' = "done"
    /\ UNCHANGED <<u_file, u_chunks, u_points, u_i, u_upserts, u_docs>>

\* POST /api/embedding/document. The copy of the file to the file storage
\* (handle_file_upload) runs as a task of its own and does not touch the
\* vector store.
upload_doc ==
    /\ UploadPrepare \/ UploadBatch \/ UploadReturn
    /\ UNCHANGED <<ingestVars, queryVars, chunkVars, filterVars, modelVars, lifeVars>>

(***************************************************************************)
(* Idle values of the other machines                                       *)
(***************************************************************************)
QueryIdle == q_req = None /\ q_pc = "idle" /\ q_resp = None

ChunkIdle ==
    /\ c_text = <<>> /\ c_pc = "idle" /\ c_i = 0
    /\ current_chunk = <<>> /\ current_word_count = 0 /\ chunks = <<>>
    /\ current_overlap = 0 /\ chunk_overlaps = <<>>

FilterIdle == f_in = <<>> /\ f_pc = "idle" /\ f_out = <<>>

IngestIdle == IngestInit

ModelIdle == ModelInit

LifeIdle ==
    /\ l_pc = "idle" /\ l_i = 0 /\ task = <<>>
    /\ tasks = [w \in Workers |-> "none"]
    /\ collections = [c \in Collections |-> <<>>]
    /\ l_created = <<>> /\ l_run = 0

UploadIdle ==
    /\ u_file = <<>> /\ u_chunks = <<>> /\ u_pc = "idle" /\ u_tmp = "none"
    /\ u_points = <<>> /\ u_i = 0 /\ u_upserts = <<>> /\ u_docs = <<>> /\ u_resp = <<>>

(***************************************************************************)
(* Specifications                                                          *)
(***************************************************************************)
Init == IngestInit /\ QueryIdle /\ ChunkIdle /\ FilterIdle /\ ModelIdle /\ LifeIdle /\ UploadIdle

Next == Receive \/ embedding_worker \/ embedding_chat_worker

Spec == Init /\ [][Next]_vars

\* The event loop runs a ready task: a worker whose queue holds an item, or
\* which holds an item, is eventually run.
Fairness ==
    \A w \in Workers : WF_vars(WorkerGet(w)) /\ WF_vars(WorkerBody(w))

FairSpec == Init /\ [][Next]_vars /\ Fairness

QueryNext == rag_search \/ rag_search_stream

QueryStart ==
    QueryInit /\ IngestIdle /\ ChunkIdle /\ FilterIdle /\ ModelIdle /\ LifeIdle /\ UploadIdle

QuerySpec == QueryStart /\ [][QueryNext]_vars

ChunkNext == ChunkLine \/ ChunkFlush

ChunkStart ==
    ChunkInit /\ IngestIdle /\ QueryIdle /\ FilterIdle /\ ModelIdle /\ LifeIdle /\ UploadIdle

ChunkSpec == ChunkStart /\ [][ChunkNext]_vars

FilterNext == BuildFilter

FilterStart ==
    FilterInit /\ IngestIdle /\ QueryIdle /\ ChunkIdle /\ ModelIdle /\ LifeIdle /\ UploadIdle

FilterSpec == FilterStart /\ [][FilterNext]_vars

ModelNext == (\E c \in Callers : set_model(c)) \/ get_model

ModelStart ==
    ModelInit /\ IngestIdle /\ QueryIdle /\ ChunkIdle /\ FilterIdle /\ LifeIdle /\ UploadIdle

ModelSpec == ModelStart /\ [][ModelNext]_vars

LifeNext == lifespan \/ WorkerTask

LifeStart ==
    LifeInit /\ ModelInit /\ IngestIdle /\ QueryIdle /\ ChunkIdle /\ FilterIdle /\ UploadIdle

LifeSpec == LifeStart /\ [][LifeNext]_vars

UploadNext == upload_doc

UploadStart ==
    UploadInit /\ IngestIdle /\ QueryIdle /\ ChunkIdle /\ FilterIdle /\ ModelIdle /\ LifeIdle

UploadSpec == UploadStart /\ [][UploadNext]_vars

(***************************************************************************)
(* Properties of the ingestion pipeline                                    *)
(***************************************************************************)
MsgIds == 1..MaxMsgs

Ids(s) == [i \in 1..Len(s) |-> s[i].block_id]

Count(s, id) == Cardinality({i \in 1..Len(s) : s[i].block_id = id})

IsPrefix(s, t) == Len(s) <= Len(t) /\ s = SubSeq(t, 1, Len(s))

Ended(id) == \E w \in Workers : \E i \in 1..Len(finished[w]) : finished[w][i].block_id = id

EndedAs(id, result) ==
    \E w \in Workers : \E i \in 1..Len(finished[w]) :
        finished[w][i].block_id = id /\ finished[w][i].result = result

\* Positions of the worker loop: "crashed" is the task ended by an exception,
\* "exited" the loop left.
WorkerRunning(w) == pc[w] \in {"get", "body"}

\* C1: an exception of the embedding or of the upsert for one message neither
\* ends the worker loop nor leaves it (the worker is never crashed or exited,
\* the failure is only logged), and the messages queued behind the failed one
\* are untouched: each is still queued, held by the worker, or ended on its
\* own outcome (stored iff its own try block raised nothing).
C1_WorkerSurvivesFailure ==
    \A w \in Workers :
        /\ WorkerRunning(w)
        /\ Len(errors_logged) =
              Cardinality({<<v, i>> \in Workers \X (1..MaxMsgs) :
                              i <= Len(finished[v]) /\ finished[v][i].result = "dropped"})
        /\ \A i \in 1..Len(finished[w]) :
              finished[w][i].result = "dropped" =>
                  \A j \in 1..Len(enqueued[w]) :
                      j > i =>
                          LET m == enqueued[w][j]
                          IN  \/ Count(queue[w], m.block_id) = 1
                              \/ chunk[w] = <<m>>
                              \/ /\ j <= Len(finished[w])
                                 /\ finished[w][j].block_id = m.block_id
                                 /\ (finished[w][j].result = "stored")
                                       = (finished[w][j].raised = "none")

\* A message failed and the next message of the same queue was then stored.
C1_Witness ==
    \E w \in Workers : \E i \in 1..Len(finished[w]) :
        /\ i + 1 <= Len(finished[w])
        /\ finished[w][i].raised \in {"encode", "upsert"}
        /\ finished[w][i + 1].result = "stored"
        /\ pc[w] = "get"

\* C2: at-most-once delivery: every received message is in exactly one place
\* (on its queue once, or dequeued once by one worker), causes at most one
\* upsert call, and a message that failed has no point in any collection.
C2_AtMostOnce ==
    \A id \in 1..nextId :
        /\ Count(queue["transcript"], id) + Count(queue["chat"], id)
             + Count(dequeued["transcript"], id) + Count(dequeued["chat"], id) = 1
        /\ Count(upsert_log, id) <= 1
        /\ \A c \in Collections :
              Cardinality({i \in 1..Len(store[c]) : store[c][i].payload.block_id = id})
                 <= (IF EndedAs(id, "stored") THEN 1 ELSE 0)
        /\ ~(EndedAs(id, "stored") /\ EndedAs(id, "dropped"))

\* A message whose upsert raised was dropped, the worker went on and is idle
\* at an empty queue: the failed message is nowhere to be retried from.
C2_Witness ==
    \E w \in Workers :
        /\ Len(finished[w]) >= 2
        /\ finished[w][1].raised = "upsert"
        /\ queue[w] = <<>> /\ pc[w] = "get"
        /\ store[WorkerCollection(w)] # <<>>

\* C3: strict FIFO within one queue: the worker gets the messages in the order
\* they were put, ends each before it gets the next, and the points of its
\* collection are the stored messages in enqueue order.
C3_FifoWithinQueue ==
    \A w \in Workers :
        /\ IsPrefix(Ids(dequeued[w]), Ids(enqueued[w]))
        /\ IsPrefix(Ids(finished[w]), Ids(dequeued[w]))
        /\ Len(dequeued[w]) - Len(finished[w]) = (IF pc[w] = "body" THEN 1 ELSE 0)
        /\ [i \in 1..Len(store[WorkerCollection(w)]) |->
               store[WorkerCollection(w)][i].payload]
             = SelectSeq(enqueued[w], LAMBDA m : EndedAs(m.block_id, "stored"))

\* Three messages went through one queue; the first and the last are stored.
C3_Witness ==
    \E w \in Workers :
        /\ Len(finished[w]) = 3
        /\ finished[w][1].result = "stored"
        /\ finished[w][2].result = "dropped"
        /\ finished[w][3].result = "stored"

\* C4: under fair scheduling of the workers every received message is
\* eventually dequeued and its processing ends, stored or dropped.
C4_EveryMessageEnds ==
    \A id \in MsgIds : (nextId >= id) ~> Ended(id)

\* A poison item (its embedding raised) was dropped and a later item of the
\* same queue ended after it.
C4_Witness ==
    \E w \in Workers : \E i \in 1..Len(finished[w]) :
        /\ finished[w][i].raised = "encode"
        /\ i < Len(finished[w])
        /\ nextId = MaxMsgs

\* Every point written by a worker, with the collection it went to.
AllPoints ==
    UNION {{[collection |-> c, point |-> store[c][i]] : i \in 1..Len(store[c])} :
              c \in Collections}

UpsertsOf(id) == {k \in 1..Len(upsert_log) : upsert_log[k].block_id = id}

\* C17: for each message a worker processed successfully there is exactly one
\* upsert call, of exactly one point, whose payload is the whole queued message;
\* the identifiers of the points are pairwise different; the transcript worker
\* writes to meeting_transcripts only and the chat worker to chat_messages only.
C17_OnePointPerStoredMessage ==
    /\ \A w \in Workers : \A i \in 1..Len(finished[w]) :
          LET id == finished[w][i].block_id
              mine == IF w = "transcript" THEN QDRANT_MEETING_TRANSCRIPTS_COLLECTION_NAME
                      ELSE QDRANT_CHAT_MESSAGES_COLLECTION_NAME
          IN  /\ \A k \in UpsertsOf(id) :
                    /\ upsert_log[k].collection = mine
                    /\ Len(upsert_log[k].points) = 1
                    /\ upsert_log[k].points[1].payload = enqueued[w][i]
              /\ finished[w][i].result = "stored" =>
                    /\ Cardinality(UpsertsOf(id)) = 1
                    /\ {a \in AllPoints : a.point.payload.block_id = id}
                          = {[collection |-> mine,
                              point |-> upsert_log[k].points[1]] : k \in UpsertsOf(id)}
    /\ \A k1, k2 \in 1..Len(upsert_log) :
          upsert_log[k1].points[1].id = upsert_log[k2].points[1].id => k1 = k2
    /\ Cardinality(AllPoints) = Cardinality({a.point.id : a \in AllPoints})
    /\ store[QDRANT_DOCUMENT_COLLECTION_NAME] = <<>>

\* A transcript message and a chat message were both stored, and an upsert of
\* a third message failed.
C17_Witness ==
    /\ store[QDRANT_MEETING_TRANSCRIPTS_COLLECTION_NAME] # <<>>
    /\ store[QDRANT_CHAT_MESSAGES_COLLECTION_NAME] # <<>>
    /\ \E k \in 1..Len(upsert_log) : ~upsert_log[k].ok

\* The messages put on the queue of worker w that the acknowledgement k is for.
QueuedFor(k, w) ==
    {i \in 1..Len(enqueued[w]) : enqueued[w][i].block_id = acks[k].block_id}

\* C18: every message received was put on exactly one queue by the time its
\* "queued" acknowledgement is sent, the chat queue iff its "type" is "chat"
\* and the transcript queue otherwise (also when it has no "type"), carrying
\* the meeting_id of the connection path whatever the client sent; and the
\* handler can take the next message whatever the queues hold and wherever the
\* workers are.
C18_QueuedBeforeAck ==
    /\ Len(acks) = nextId
    /\ \A k \in 1..Len(acks) :
          /\ acks[k].status = "queued"
          /\ Cardinality(QueuedFor(k, "chat")) + Cardinality(QueuedFor(k, "transcript")) = 1
          /\ \A w \in Workers : \A i \in QueuedFor(k, w) :
                /\ (w = "chat") = (enqueued[w][i].type = "chat")
                /\ enqueued[w][i].meeting_id = ConnectionMeetingId
                /\ acks[k].meeting_id = enqueued[w][i].meeting_id
    /\ nextId < MaxMsgs => ENABLED Receive

\* A message without "type" went to the transcript queue and a chat message to
\* the chat queue, the second one while the transcript worker still held the
\* first and the chat queue already held a message.
C18_Witness ==
    /\ Len(enqueued["transcript"]) >= 1 /\ Len(enqueued["chat"]) >= 2
    /\ enqueued["transcript"][1].type = None
    /\ enqueued["transcript"][1].block_id < enqueued["chat"][2].block_id
    /\ Len(queue["chat"]) = 2
    /\ pc["transcript"] = "body"
    /\ Len(acks) = MaxMsgs

\* task_done calls on queue w so far: every put raised the count of unfinished
\* tasks by one, every task_done lowered it by one.
TaskDoneCalls(w) == Len(enqueued[w]) - unfinished[w]

\* C25: on each ingestion queue task_done has been called once for every item
\* dequeued and worked through, failed or not, and never for an item not yet
\* dequeued; the count of unfinished tasks is never negative, is the number of
\* items queued plus the one in flight, and is zero when the queue is empty
\* and the worker waits at the dequeue.
C25_TaskDoneOncePerItem ==
    \A w \in Workers :
        /\ TaskDoneCalls(w) = Len(finished[w])
        /\ TaskDoneCalls(w) = Len(dequeued[w]) - Len(chunk[w])
        /\ TaskDoneCalls(w) <= Len(dequeued[w])
        /\ unfinished[w] >= 0
        /\ unfinished[w] = Len(queue[w]) + Len(chunk[w])
        /\ (queue[w] = <<>> /\ pc[w] = "get") => unfinished[w] = 0

\* The chat worker worked through a failed and a stored item and waits at the
\* dequeue of its empty queue, while the transcript worker holds an item.
C25_Witness ==
    /\ \E i, j \in 1..Len(finished["chat"]) :
          finished["chat"][i].raised # "none" /\ finished["chat"][j].raised = "none"
    /\ queue["chat"] = <<>> /\ pc["chat"] = "get"
    /\ TaskDoneCalls("chat") = 2
    /\ pc["transcript"] = "body" /\ unfinished["transcript"] = 1

(***************************************************************************)
(* Properties of the query endpoints                                       *)
(***************************************************************************)
QueryDone == q_pc = "done"

\* The SearchResults the store's answer for collection c converts to.
Converted(c) ==
    [i \in 1..Len(q_req.hits[c]) |-> [collection |-> c, score |-> q_req.hits[c][i], rank |-> i]]

\* Concatenation of the per-collection result lists of a finished request, in
\* the order documents, transcripts, chat.
Concatenated == Flatten(q_resp.run.results)

\* Position of element j of cat after a stable sort by descending score: one
\* more than the number of elements that score higher, or score the same and
\* stand earlier.
StablePosition(cat, j) ==
    1 + Cardinality({k \in 1..Len(cat) :
                        \/ cat[k].score > cat[j].score
                        \/ cat[k].score = cat[j].score /\ k < j})

IsFusionOf(fused, cat, cap) ==
    /\ Len(fused) = Min(cap, Len(cat))
    /\ \A j \in 1..Len(cat) :
          StablePosition(cat, j) <= Len(fused) => fused[StablePosition(cat, j)] = cat[j]

ExampleA == <<[collection |-> "a", score |-> 9, rank |-> 1], [collection |-> "a", score |-> 5, rank |-> 2]>>
ExampleB == <<[collection |-> "b", score |-> 8, rank |-> 1], [collection |-> "b", score |-> 3, rank |-> 2]>>

\* C5: in rag_search every per-collection search that raises contributes an
\* empty list, every other search contributes all its results, these are fused
\* and returned, and a search failure alone never fails the request (a 500
\* only comes from the query embedding or the generation call).
C5_PartialResultTolerance ==
    (QueryDone /\ q_resp.endpoint = "rag_search" /\ q_resp.embed_ok) =>
        /\ q_resp.run.searched = SearchOrder
        /\ \A i \in 1..3 :
              q_resp.run.results[i] =
                 (IF SearchOrder[i] \in q_resp.run.failing THEN <<>>
                  ELSE Converted(SearchOrder[i]))
        /\ ~q_resp.run.gather_raised
        /\ IsFusionOf(q_resp.run.top_results, Concatenated, 2 * q_req.top_k)
        /\ q_resp.status = 500 => q_resp.run.generate_called
        /\ q_resp.status = 200 =>
              /\ q_resp.total_results = Len(Concatenated)
              /\ q_req.include_sources => q_resp.sources = q_resp.run.top_results

\* One search raised although the store had hits for it; the request succeeded
\* with sources from both other collections.
C5_Witness ==
    /\ QueryDone /\ q_resp.endpoint = "rag_search" /\ q_resp.status = 200
    /\ q_resp.run.failing = {QDRANT_MEETING_TRANSCRIPTS_COLLECTION_NAME}
    /\ q_req.hits[QDRANT_MEETING_TRANSCRIPTS_COLLECTION_NAME] # <<>>
    /\ q_req.include_sources
    /\ {r.collection : r \in Range(q_resp.sources)}
          = {QDRANT_DOCUMENT_COLLECTION_NAME, QDRANT_CHAT_MESSAGES_COLLECTION_NAME}

\* C6: the fused list of either endpoint is the concatenation of its
\* per-collection result lists (documents, transcripts, chat order) sorted by
\* descending score, equal scores keeping their concatenation order, cut to
\* its first 2 * top_k elements; [0.9,0.5] and [0.8,0.3] fuse to
\* [0.9,0.8,0.5,0.3].
C6_Fusion ==
    /\ (QueryDone /\ q_resp.embed_ok) =>
          /\ q_resp.run.searched = SubSeq(SearchOrder, 1, Len(q_resp.run.searched))
          /\ IsFusionOf(q_resp.run.top_results, Concatenated, 2 * q_req.top_k)
          /\ IsFusionOf(q_resp.run.all_results, Concatenated, Len(Concatenated))
    /\ TopResults(SortByScoreDesc(ExampleA \o ExampleB), 2)
          = <<ExampleA[1], ExampleB[1], ExampleA[2], ExampleB[2]>>

\* Results of equal score from different collections were fused and the cap
\* cut the list.
C6_Witness ==
    /\ QueryDone /\ q_resp.embed_ok
    /\ Len(Concatenated) > 2 * q_req.top_k
    /\ Len(q_resp.run.top_results) >= 3
    /\ q_resp.run.top_results[1].score = q_resp.run.top_results[2].score
    /\ q_resp.run.top_results[1].collection # q_resp.run.top_results[2].collection
    /\ q_resp.run.top_results[3].score < q_resp.run.top_results[2].score

RenderedIn(p, g) == Range(p[g])

\* C13: every fused result passed to build_rag_prompt, whichever collection it
\* comes from, is rendered in exactly one source-type group of the prompt, and
\* each group lists its results in the order they have in the fused list.
C13_EveryResultInOneGroup ==
    (QueryDone /\ q_resp.run.prompts # <<>>) =>
        LET p == q_resp.run.prompts[1]
            top == q_resp.run.top_results
        IN  /\ \A i \in 1..Len(top) :
                  Cardinality({g \in DOMAIN p : top[i] \in RenderedIn(p, g)}) = 1
            /\ \A g \in DOMAIN p :
                  p[g] = SelectSeq(top, LAMBDA r : r \in RenderedIn(p, g))

\* The query embedding of the finished request raised, or its generation call
\* did.
CriticalPathFailed ==
    ~q_resp.embed_ok \/ (q_resp.run.generate_called /\ q_resp.run.raised)

\* C14: on both endpoints a request whose generation call or query embedding
\* raised ends as a failed request: no success status, and no text in place of
\* an answer.
C14_FailureSurfaced ==
    (QueryDone /\ CriticalPathFailed) =>
        q_resp.status # 200 /\ q_resp.answer = None

\* What each endpoint does for the request at hand when nothing fails.
FaultFreeRun(endpoint) ==
    Retrieve(q_req,
             IF endpoint = "rag_search" THEN RagSearchCollections
             ELSE RagSearchStreamCollections,
             {}, TRUE)

\* C26: for the same request and store contents rag_search and
\* rag_search_stream search the same set of collections, fuse the same
\* top-results list and take the same answer path (the fallback string, or
\* generation with the same prompt). Stated at a request an endpoint has
\* answered without a failure: the other endpoint's run agrees with it.
C26_EndpointsEquivalent ==
    (QueryDone /\ q_resp.embed_ok /\ ~q_resp.run.raised) =>
        LET mine == q_resp.run
            other == FaultFreeRun(IF q_resp.endpoint = "rag_search"
                                  THEN "rag_search_stream" ELSE "rag_search")
        IN  /\ Range(mine.searched) = Range(other.searched)
            /\ mine.top_results = other.top_results
            /\ mine.generate_called = other.generate_called
            /\ mine.prompts = other.prompts
            /\ mine.answer = other.answer

(***************************************************************************)
(* Properties of the chunker                                               *)
(***************************************************************************)
NonBlank(lines) == SelectSeq(lines, LAMBDA l : ~IsBlank(l))

WithoutOverlap(lines, overlap) == SubSeq(lines, overlap + 1, Len(lines))

\* The lines each returned chunk adds to the ones before it.
NewLinesOfChunks ==
    Flatten([k \in 1..Len(chunks) |-> WithoutOverlap(chunks[k].text, chunk_overlaps[k])])

NoLongLine == \A i \in 1..Len(c_text) : c_text[i].words <= max_words

\* C8: with max_tokens=512 and overlap_tokens=50, when no input line has more
\* than 384 words every returned chunk has word_count <= 384.
C8_WordCountAtMostMaxWords ==
    NoLongLine => \A k \in 1..Len(chunks) : chunks[k].word_count <= 384

\* C9: the chunks in order, each without the leading lines carried over from
\* the chunk before it, are exactly the non-blank input lines in order, each
\* line whole; the carried-over lines of a chunk are the last lines of the
\* chunk before it.
C9_ChunksReproduceLines ==
    /\ Len(chunk_overlaps) = Len(chunks)
    /\ \A k \in 1..Len(chunks) :
          /\ chunk_overlaps[k] <= Len(chunks[k].text)
          /\ k = 1 => chunk_overlaps[k] = 0
          /\ k > 1 =>
                /\ chunk_overlaps[k] <= Len(chunks[k - 1].text)
                /\ SubSeq(chunks[k].text, 1, chunk_overlaps[k])
                      = SubSeq(chunks[k - 1].text,
                               Len(chunks[k - 1].text) - chunk_overlaps[k] + 1,
                               Len(chunks[k - 1].text))
    /\ c_pc = "loop" =>
          NewLinesOfChunks \o WithoutOverlap(current_chunk, current_overlap)
             = NonBlank(SubSeq(c_text, 1, c_i - 1))
    /\ c_pc = "done" => NewLinesOfChunks = NonBlank(c_text)

\* A text with a blank line and a line longer than max_words was chunked into
\* several chunks, a later one starting with carried-over lines.
C9_Witness ==
    /\ c_pc = "done"
    /\ Len(chunks) >= 3
    /\ chunk_overlaps[2] >= 1
    /\ \E i \in 1..Len(c_text) : IsBlank(c_text[i])
    /\ \E i \in 1..Len(c_text) : c_text[i].words > max_words

\* The lines chunk k was seeded with when chunk k - 1 was closed.
SeedOf(k) == SubSeq(chunks[k].text, 1, chunk_overlaps[k])

IsSuffixOf(s, t) == Len(s) <= Len(t) /\ s = SubSeq(t, Len(t) - Len(s) + 1, Len(t))

\* s reaches overlap_words and no shorter suffix does.
ShortestReaching(s) ==
    /\ WordsOf(s) >= overlap_words
    /\ s # <<>> /\ WordsOf(Tail(s)) < overlap_words

\* C21 as stated: the lines seeding each chunk after the first are a suffix of
\* the chunk closed before it whose word count is >= overlap_words, and the
\* shortest such suffix.
C21_AsStated ==
    \A k \in 2..Len(chunks) :
        IsSuffixOf(SeedOf(k), chunks[k - 1].text) /\ ShortestReaching(SeedOf(k))

\* C21 amended: the seed is the shortest suffix of the closed chunk that
\* reaches overlap_words, or the whole closed chunk when that chunk has fewer
\* than overlap_words words.
C21_ShortestSuffixOrWholeChunk ==
    /\ Len(chunk_overlaps) = Len(chunks)
    /\ \A k \in 2..Len(chunks) :
          /\ IsSuffixOf(SeedOf(k), chunks[k - 1].text)
          /\ IF WordsOf(chunks[k - 1].text) >= overlap_words
             THEN ShortestReaching(SeedOf(k))
             ELSE SeedOf(k) = chunks[k - 1].text

\* A chunk of three lines (200, 20 and 20 words) was closed and the next chunk
\* was seeded with its last two lines: the last alone has fewer than 37 words.
C21_Witness ==
    /\ c_pc = "done"
    /\ \E k \in 2..Len(chunks) :
          /\ Len(chunks[k - 1].text) = 3
          /\ chunk_overlaps[k] = 2
          /\ WordsOf(SeedOf(k)) = 40

\* C23: every chunk, the ones seeded with overlap lines included, carries
\* word_count = the number of words of its text and
\* approx_tokens = floor(4 * word_count / 3).
C23_CountsMatchText ==
    \A k \in 1..Len(chunks) :
        /\ chunks[k].word_count = WordsOf(chunks[k].text)
        /\ chunks[k].approx_tokens = (4 * chunks[k].word_count) \div 3

\* A chunk seeded with one 200-word overlap line and extended by a 200-word
\* line: 400 words, 533 approximate tokens.
C23_Witness ==
    /\ c_pc = "done"
    /\ \E k \in 2..Len(chunks) :
          /\ chunk_overlaps[k] = 1
          /\ Len(chunks[k].text) = 2
          /\ chunks[k].word_count = 400
          /\ chunks[k].approx_tokens = 533

\* The input lines chunk k was the first to hold.
NewLinesOf(k) == Range(WithoutOverlap(chunks[k].text, chunk_overlaps[k]))

\* C24: every chunk is non-empty and holds at least one input line that no
\* earlier chunk newly added; there are at most as many chunks as non-blank
\* input lines; an input without a non-blank line yields no chunk.
C24_Progress ==
    /\ \A k \in 1..Len(chunks) :
          /\ chunks[k].text # <<>>
          /\ chunks[k].word_count > 0
          /\ \E i \in 1..Len(chunks[k].text) :
                \A j \in 1..(k - 1) : chunks[k].text[i] \notin NewLinesOf(j)
    /\ Len(chunks) <= Len(NonBlank(c_text))
    /\ (c_pc = "done" /\ NonBlank(c_text) = <<>>) => chunks = <<>>

\* Three non-blank lines became three chunks, the last seeded with one line of
\* the chunk before it: the bound on the number of chunks is met.
C24_Witness ==
    /\ c_pc = "done"
    /\ Len(NonBlank(c_text)) = 3
    /\ Len(chunks) = 3
    /\ chunk_overlaps[3] = 1

(***************************************************************************)
(* Properties of the filter builder                                        *)
(***************************************************************************)
FilterDone == f_pc = "done" /\ ~IsNone(f_in[1].filters)

GivenFilters == f_in[1].filters[1]

Must == IF IsNone(f_out) THEN <<>> ELSE f_out[1].must

HasKey(key) == \E i \in 1..Len(Must) : Must[i].key = key

HasMatch(key, value) ==
    \E i \in 1..Len(Must) :
        Must[i].key = key /\ Must[i].kind = "match" /\ Must[i].value = value

HasRange(key, gte, lte) ==
    \E i \in 1..Len(Must) :
        Must[i].key = key /\ Must[i].kind = "range" /\ Must[i].gte = gte /\ Must[i].lte = lte

\* What C10 says of every field but meeting_id.
TypeSpecificPredicates ==
    /\ ~IsNone(f_out) => DOMAIN f_out[1] = {"must"}
    /\ f_in[1].collection_type = "documents" =>
          /\ HasKey("chunk_index")
                = (~IsNone(GivenFilters.chunk_index_min) \/ ~IsNone(GivenFilters.chunk_index_max))
          /\ HasKey("chunk_index") =>
                HasRange("chunk_index", GivenFilters.chunk_index_min,
                         GivenFilters.chunk_index_max)
          /\ ~HasKey("block_id")
    /\ f_in[1].collection_type \in {"transcripts", "chat"} =>
          ~HasKey("chunk_index") /\ ~HasKey("file_name")

\* C10 as stated: for "documents" the filter has an exact-match predicate on
\* meeting_id iff meeting_id is set (is not None), a chunk_index range iff a
\* chunk_index bound is set, never block_id; for "transcripts" and "chat" never
\* chunk_index or file_name; all predicates under must.
C10_AsStated ==
    FilterDone =>
        /\ TypeSpecificPredicates
        /\ f_in[1].collection_type = "documents" =>
              HasKey("meeting_id") = ~IsNone(GivenFilters.meeting_id)

\* C10 amended: the meeting_id predicate is emitted iff meeting_id is set to a
\* non-empty string, and it matches that string exactly.
C10_PredicatesPerType ==
    FilterDone =>
        /\ TypeSpecificPredicates
        /\ f_in[1].collection_type = "documents" =>
              /\ HasKey("meeting_id") = Truthy(GivenFilters.meeting_id)
              /\ HasKey("meeting_id") => HasMatch("meeting_id", GivenFilters.meeting_id)

\* SearchFilters{meeting_id: "m1"} for documents: one exact-match predicate on
\* meeting_id and no chunk_index predicate.
C10_Witness ==
    /\ FilterDone
    /\ f_in[1].collection_type = "documents"
    /\ GivenFilters.meeting_id = Some("m1")
    /\ IsNone(GivenFilters.chunk_index_min) /\ IsNone(GivenFilters.chunk_index_max)
    /\ HasMatch("meeting_id", Some("m1"))
    /\ ~HasKey("chunk_index")
    /\ Len(Must) = 1

\* Either bound of the block_id range is given.
BlockBoundSet ==
    ~IsNone(GivenFilters.block_id_min) \/ ~IsNone(GivenFilters.block_id_max)

\* C11: when block_id_min or block_id_max is set, the filter built for
\* "transcripts" and the filter built for "chat" each contain a block_id range
\* predicate with those bounds.
C11_BlockIdRangeForTranscriptsAndChat ==
    (FilterDone /\ f_in[1].collection_type \in {"transcripts", "chat"} /\ BlockBoundSet)
        => HasRange("block_id", GivenFilters.block_id_min, GivenFilters.block_id_max)

\* No field of the SearchFilters object is set.
NoFieldSet ==
    \A field \in DOMAIN GivenFilters : IsNone(GivenFilters[field])

\* Some field that is set is one the code turns into a predicate for the
\* collection type of the call.
PredicateApplies ==
    \/ Truthy(GivenFilters.meeting_id)
    \/ Truthy(GivenFilters.start_timestamp)
    \/ /\ f_in[1].collection_type = "documents"
       /\ \/ Truthy(GivenFilters.file_name)
          \/ ~IsNone(GivenFilters.chunk_index_min)
          \/ ~IsNone(GivenFilters.chunk_index_max)
    \/ f_in[1].collection_type = "transcripts" /\ BlockBoundSet

\* A predicate made of nothing the caller gave: a match on no value, or a range
\* without a bound. The store matches no point against the first.
MadeOfNothing(c) ==
    \/ c.kind = "match" /\ IsNone(c.value)
    \/ c.kind = "range" /\ IsNone(c.gte) /\ IsNone(c.lte)

C20_TimestampRange ==
    (FilterDone /\ (Truthy(GivenFilters.start_timestamp)
                       \/ Truthy(GivenFilters.end_timestamp)))
        => HasRange("timestamp", GivenFilters.start_timestamp,
                    GivenFilters.end_timestamp)

(***************************************************************************)
(* Properties of the model holder                                          *)
(***************************************************************************)
\* C15: whatever the number and interleaving of set_model calls, at most one
\* model construction succeeds, the global is assigned at most once, and
\* get_model never returns two different instances.
C15_LoadedOnce ==
    /\ Len(loads) <= 1
    /\ Cardinality(returned \ {<<>>}) <= 1

(***************************************************************************)
(* Properties of the lifespan                                              *)
(***************************************************************************)
\* C16: when the shutdown step of lifespan has completed, every worker task
\* started at startup, the transcript worker's and the chat worker's, has been
\* cancelled and has ended.
C16_AllWorkersStopped ==
    l_pc = "stopped" => \A w \in Workers : tasks[w] = "cancelled"

\* The startup of this run has completed.
StartupCompleted == l_pc \in {"serving", "await", "stopped"}

\* C19: no step changes a collection that exists (it is not recreated and
\* keeps its points), a collection that comes into existence is empty, has
\* cosine distance and the model's dimension, and once a startup has completed
\* documents, meeting_transcripts and chat_messages all exist; so a startup
\* that finds all three changes nothing.
C19_SetupIdempotent ==
    /\ [](StartupCompleted => \A c \in Collections : collections[c] # <<>>)
    /\ [][\A c \in Collections :
             /\ collections[c] # <<>> => collections'[c] = collections[c]
             /\ (collections[c] = <<>> /\ collections'[c] # <<>>) =>
                   /\ collections'[c][1].distance = "Cosine"
                   /\ collections'[c][1].size
                         = get_sentence_embedding_dimension(_model[1])
                   /\ collections'[c][1].points = 0]_vars

\* Second start of the process against the same store, startup completed: the
\* documents collection that was there before the first start still has its
\* parameters and points, the chat collection made by the first start is kept
\* with its indexes, and this start created nothing.
C19_Witness ==
    /\ l_run = 2 /\ l_pc = "serving"
    /\ l_created = <<>>
    /\ collections[QDRANT_DOCUMENT_COLLECTION_NAME] = <<Collection(768, "Dot", 2, {})>>
    /\ collections[QDRANT_CHAT_MESSAGES_COLLECTION_NAME]
          = <<Collection(384, "Cosine", 0, create_indexes_for_chat_messages_collection)>>

(***************************************************************************)
(* Properties of the document upload                                       *)
(***************************************************************************)
UploadDone == u_pc = "done"

\* The points of the upsert calls made so far, in the order they were sent.
SentPoints == Flatten([k \in 1..Len(u_upserts) |-> u_upserts[k].points])

\* The points of the upsert calls that succeeded.
AcceptedPoints ==
    Flatten([k \in 1..Len(u_upserts) |->
                IF u_upserts[k].ok THEN u_upserts[k].points ELSE <<>>])

\* C22: the points of a document (chunk_index 1..n, one per chunk) are
\* upserted in consecutive batches of at most 50 points, in chunk order, every
\* point in exactly one batch; when batch j fails the request fails, batches
\* 1..j-1 stay stored and no batch after j is sent.
C22_BatchedUpsert ==
    /\ u_pc \in {"batch", "done"} /\ u_points # <<>> =>
          /\ Len(u_points) = Len(u_chunks)
          /\ \A i \in 1..Len(u_points) :
                /\ u_points[i].payload.chunk_index = i
                /\ u_points[i].payload.text = u_chunks[i].text
    /\ \A k \in 1..Len(u_upserts) :
          /\ Len(u_upserts[k].points) \in 1..50
          /\ u_upserts[k].collection = "documents"
          /\ k < Len(u_upserts) => u_upserts[k].ok /\ Len(u_upserts[k].points) = 50
    /\ IsPrefix(SentPoints, u_points)
    /\ \A i \in 1..Len(SentPoints) :
          Cardinality({<<k, j>> \in (1..Len(u_upserts)) \X (1..50) :
                          /\ j <= Len(u_upserts[k].points)
                          /\ u_upserts[k].points[j].payload.chunk_index = i}) = 1
    /\ u_docs = AcceptedPoints
    /\ (u_upserts # <<>> /\ ~u_upserts[Len(u_upserts)].ok) =>
          /\ UploadDone
          /\ u_resp = <<Response(500, 0)>>
          /\ u_docs = SubSeq(u_points, 1, 50 * (Len(u_upserts) - 1))
    /\ (UploadDone /\ u_resp[1].status = 200) =>
          /\ SentPoints = u_points
          /\ u_docs = u_points
          /\ u_resp[1].chunks_stored = Len(u_chunks)

\* A document of 101 chunks: two batches of 50 points were stored, the third
\* batch (the last point) failed and the request ended with an error.
C22_Witness ==
    /\ UploadDone
    /\ Len(u_chunks) = 101
    /\ Len(u_upserts) = 3
    /\ ~u_upserts[3].ok
    /\ Len(u_docs) = 100
    /\ u_resp[1].status = 500

====
